---- MODULE Spec2Model ----
(***************************************************************************)
(* Verification model of the omero-ms-zarr scripts:                        *)
(*   src/src/scripts/fetch-ms-zarr.py      (mirror a Zarr tree over HTTP)  *)
(*   src/examples/idr2zarr/idr-image2zarr.py (resumable plane download)    *)
(*   src/src/scripts/scale.py              (multiresolution pyramid)       *)
(*   src/src/scripts/omero_to_zarr.py      (OMERO image to Zarr)           *)
(* Each script is a sequential program; pc is its position.                *)
(***************************************************************************)
EXTENDS Integers, Sequences, FiniteSets, TLC

VARIABLES
    script,      \* the script that is running
    pc,          \* position of the running script
    exitStatus,  \* process exit status once the script has ended, -1 before
    reported,    \* the message printed on failure, <<>> if none
    \* ---- fetch-ms-zarr.py
    dry_run,     \* args.dry_run
    serverLayout,\* how the source serialises its JSON documents
    zgroup,      \* parsed .zgroup
    zattrs,      \* parsed .zattrs
    zarray,      \* parsed .zarray of the current dataset
    datasets,    \* multiscale["datasets"]
    di,          \* 1-based index of the current dataset in datasets
    todo,        \* chunk coordinates the product iterator has yet to yield
    visited,     \* chunk coordinates of the current dataset already yielded
    response,    \* the response of the GET in flight, <<>> if none
    served,      \* metadata documents as served by the source, by local name
    files,       \* local files written by this run, by name
    dirs,        \* local directories that exist
    log,         \* the requests and local writes performed, in order
    \* ---- idr-image2zarr.py
    shape,       \* [getSizeX(), getSizeY(), getSizeZ(), getSizeC(), getSizeT()]
    zcts,        \* plane coordinates the product iterator has yet to yield
    planeFiles,  \* names of the plane files that exist in the image's directory
    plane,       \* the plane returned by getPlane and not yet saved, <<>> if none
    idrLog,      \* presence checks, getPlane calls and saves performed, in order
    \* ---- scale.py
    ns,          \* the parsed arguments
    outputExists,\* os.path.exists(ns.output_directory) when the script starts
    base,        \* the input array
    rv,          \* the list method(base) is building
    pyramid,     \* the list method(base) returned
    expected,    \* set(np.unique(pyramid[0]))
    uniques,     \* set(np.unique(level)) of the levels validated so far, in order
    level,       \* the loop index i of the validation and dataset loops
    store,       \* the datasets of the output group, by path
    attrs,       \* grp.attrs
    series,      \* the list of {"path": ...} entries
    inputReads,  \* the reads of the input array performed, in order
    \* ---- omero_to_zarr.py, image_to_xarray
    image,       \* the image's sizes
    nameExists,  \* os.path.exists(name) when image_to_xarray starts
    idx,         \* the channel index of the loop of line 58
    xr_data,     \* the channels' data collected so far, by str(idx)
    planeReads,  \* the (z,c,t) lists passed to getPlanes, in order
    written,     \* what ds.to_zarr(name) wrote, <<>> if nothing
    \* ---- omero_to_zarr.py, image_to_zarr
    zimage,      \* the image's sizes
    zct_list,    \* the (z,c,t) list passed to getPlanes
    yielded,     \* how many planes the generator planes has yielded
    zplane,      \* the plane next(planes) returned and not yet assigned, <<>> if none
    zloop,       \* the indices z, c, t of the nested loops of lines 94-97
    za,          \* the array opened by zarr.open, <<>> while None
    requested,   \* the (z,c,t) whose planes were read from the server, in order
    assigned     \* the cells [c,z,t] assigned so far, in order

fetchVars == <<dry_run, serverLayout, zgroup, zattrs, zarray, datasets, di, todo,
               visited, response, served, files, dirs, log>>
idrVars == <<shape, zcts, planeFiles, plane, idrLog>>
scaleVars == <<ns, outputExists, base, rv, pyramid, expected, uniques, level, store,
               attrs, series, inputReads>>
xarrayVars == <<image, nameExists, idx, xr_data, planeReads, written>>
zarrVars == <<zimage, zct_list, yielded, zplane, zloop, za, requested, assigned>>
vars == <<script, pc, exitStatus, reported, fetchVars, idrVars, scaleVars, xarrayVars,
          zarrVars>>

\* what a script leaves alone: the state of the other scripts
notFetch == <<script, idrVars, scaleVars, xarrayVars, zarrVars>>
notIdr == <<script, fetchVars, scaleVars, xarrayVars, zarrVars>>
notScale == <<script, fetchVars, idrVars, xarrayVars, zarrVars>>
notXarray == <<script, fetchVars, idrVars, scaleVars, zarrVars>>
notZarr == <<script, fetchVars, idrVars, scaleVars, xarrayVars>>

------------------------------------------------------------------------------
(* Bounds *)

EnumMaxShape == 5     \* extents 0..EnumMaxShape in the enumeration specification
EnumMaxChunk == 2     \* chunk sizes 1..EnumMaxChunk in the enumeration specification
FetchMaxShape == 2    \* extents 0..FetchMaxShape served to the transfer run
IdrMaxSize == 2       \* getSizeZ(), getSizeC(), getSizeT() in 1..IdrMaxSize
IdrMaxExisting == 2   \* at most this many plane files exist before the run
ScaleMaxExtent == 4   \* Y and X of the input array in 1..ScaleMaxExtent
ScaleMaxLayer == 2    \* --max_layer in 0..ScaleMaxLayer
XarrayMaxSize == 2    \* getSizeC(), getSizeZ(), getSizeT() in 1..XarrayMaxSize
ZarrMaxSize == 3      \* getSizeZ(), getSizeC(), getSizeT() of image_to_zarr

EnumRanks == {1, 2, 3}
FetchRanks == {1, 2}
FetchChunkSizes == {1, 2}
DatasetPaths == <<"0", "1">>

------------------------------------------------------------------------------
(* Generic helpers *)

Put(f, k, v) == [x \in (DOMAIN f) \cup {k} |-> IF x = k THEN v ELSE f[x]]

Min(a, b) == IF a <= b THEN a ELSE b

RECURSIVE Prod(_)
Prod(s) == IF s = <<>> THEN 1 ELSE Head(s) * Prod(Tail(s))

------------------------------------------------------------------------------
(* fetch-ms-zarr.py: chunk enumeration, lines 84-89 *)

\* range(lo, hi) as the sequence it yields
Range(lo, hi) == IF hi > lo THEN [i \in 1..(hi - lo) |-> lo + i - 1] ELSE <<>>

\* Python's // (floor division), for a positive divisor
FloorDiv(a, b) == IF a >= 0 THEN a \div b ELSE -((-a + b - 1) \div b)

RangesFloor(S, C) ==
    [i \in 1..Min(Len(S), Len(C)) |-> Range(0, FloorDiv(S[i], C[i]))]

\* ranges = [range(0, -(-s // c)) for (s, c) in zip(shape, chunks)],
\* with S the shape and C the chunks
Ranges(S, C) ==
    [i \in 1..Min(Len(S), Len(C)) |-> Range(0, -FloorDiv(-S[i], C[i]))]

\* itertools.product(*ranges): the rightmost range advances on every step
RECURSIVE Product(_)
Product(rs) ==
    IF rs = <<>> THEN << <<>> >>
    ELSE LET h == Head(rs)
             rest == Product(Tail(rs))
             m == Len(rest)
         IN  [j \in 1..(Len(h) * m) |->
                 <<h[((j - 1) \div m) + 1]>> \o rest[((j - 1) % m) + 1]]

Digits == <<"0", "1", "2", "3", "4", "5", "6", "7", "8", "9">>

\* str(n) for a one-digit n
Str(n) == Digits[n + 1]

\* '.'.join(map(str, chunk)), as a sequence of characters
RECURSIVE ChunkName(_)
ChunkName(chunk) ==
    IF chunk = <<>> THEN <<>>
    ELSE IF Len(chunk) = 1 THEN <<Str(chunk[1])>>
    ELSE <<Str(chunk[1]), ".">> \o ChunkName(Tail(chunk))

------------------------------------------------------------------------------
(* fetch-ms-zarr.py: documents and names *)

StatusCodes == {200, 404}

\* A JSON document's bytes are its value together with its formatting.
Layouts == {[style |-> "dumps", newline |-> TRUE],
            [style |-> "dumps", newline |-> FALSE],
            [style |-> "indent", newline |-> FALSE]}

\* response.json()
Parse(body) == body.json

\* json.dumps(value): the default separators, no trailing newline
Dumps(value) == [json |-> value, layout |-> [style |-> "dumps", newline |-> FALSE]]

\* print(text, file=...): the text followed by a newline
WriteLine(text) == [text EXCEPT !.layout.newline = TRUE]

\* the arrays a source may describe in a .zarray
FetchDescriptors ==
    UNION {{[shape |-> s, chunks |-> c] :
                s \in [1..r -> 0..FetchMaxShape], c \in [1..r -> FetchChunkSizes]} :
           r \in FetchRanks}

\* the values a source may hold in zattrs['multiscales']
MultiscalesChoices ==
    {<<>>} \cup
    {<<[datasets |-> [i \in 1..n |-> [path |-> DatasetPaths[i]]]]>> :
        n \in 0..Len(DatasetPaths)}

\* os.path.dirname(filename)
Dirname(filename) ==
    LET slashes == {i \in 1..Len(filename) : filename[i] = "/"}
    IN  IF slashes = {} THEN <<>>
        ELSE SubSeq(filename, 1,
                    (CHOOSE i \in slashes : \A j \in slashes : j <= i) - 1)

\* dataset_path = dataset['path'] + '/'; local_prefix = dataset_path
LocalPrefix(dataset) == <<dataset.path, "/">>

\* the payload the source holds for a chunk
ChunkContent(dataset, chunk) == [dataset |-> dataset.path, chunk |-> chunk]

\* the state of a script that is not the one running
IdrIdle ==
    /\ shape = <<>>
    /\ zcts = <<>>
    /\ planeFiles = {}
    /\ plane = <<>>
    /\ idrLog = <<>>

FetchIdle ==
    /\ dry_run = FALSE
    /\ serverLayout = [style |-> "dumps", newline |-> TRUE]
    /\ zgroup = <<>>
    /\ zattrs = <<>>
    /\ zarray = <<>>
    /\ datasets = <<>>
    /\ di = 1
    /\ todo = <<>>
    /\ visited = <<>>
    /\ response = <<>>
    /\ served = <<>>
    /\ files = <<>>
    /\ dirs = {}
    /\ log = <<>>

ScaleIdle ==
    /\ ns = <<>>
    /\ outputExists = FALSE
    /\ base = <<>>
    /\ rv = <<>>
    /\ pyramid = <<>>
    /\ expected = {}
    /\ uniques = <<>>
    /\ level = 0
    /\ store = <<>>
    /\ attrs = <<>>
    /\ series = <<>>
    /\ inputReads = <<>>

XarrayIdle ==
    /\ image = <<>>
    /\ nameExists = FALSE
    /\ idx = 0
    /\ xr_data = <<>>
    /\ planeReads = <<>>
    /\ written = <<>>

ZarrIdle ==
    /\ zimage = <<>>
    /\ zct_list = <<>>
    /\ yielded = 0
    /\ zplane = <<>>
    /\ zloop = <<>>
    /\ za = <<>>
    /\ requested = <<>>
    /\ assigned = <<>>

Exit(status, message) ==
    /\ pc' = "exit"
    /\ exitStatus' = status
    /\ reported' = message

------------------------------------------------------------------------------
(* fetch-ms-zarr.py: the run *)

InitFetch ==
    /\ script = "fetch-ms-zarr.py"
    /\ pc = "get_zgroup"
    /\ exitStatus = -1
    /\ reported = <<>>
    /\ dry_run \in BOOLEAN
    /\ serverLayout \in Layouts
    /\ zgroup = <<>>
    /\ zattrs = <<>>
    /\ zarray = <<>>
    /\ datasets = <<>>
    /\ di = 1
    /\ todo = <<>>
    /\ visited = <<>>
    /\ response = <<>>
    /\ served = <<>>
    /\ files = <<>>
    /\ dirs \in {{}, {<<DatasetPaths[i]>> : i \in 1..Len(DatasetPaths)}}
    /\ log = <<>>
    /\ IdrIdle
    /\ ScaleIdle
    /\ XarrayIdle
    /\ ZarrIdle

\* lines 50-55
GetZgroup ==
    /\ pc = "get_zgroup"
    /\ UNCHANGED notFetch
    /\ \E status \in StatusCodes :
         LET body == [json |-> [zarr_format |-> 2], layout |-> serverLayout]
         IN  /\ log' = Append(log, [op |-> "get", name |-> <<".zgroup">>])
             /\ IF status = 200
                THEN /\ zgroup' = Parse(body)
                     /\ served' = Put(served, <<".zgroup">>, body)
                     /\ pc' = "get_zattrs"
                     /\ UNCHANGED <<exitStatus, reported>>
                ELSE /\ Exit(2, [msg |-> "no image found", at |-> <<>>])
                     /\ UNCHANGED <<zgroup, served>>
    /\ UNCHANGED <<dry_run, serverLayout, zattrs, zarray, datasets, di, todo,
                   visited, response, files, dirs>>

\* lines 57-62
GetZattrs ==
    /\ pc = "get_zattrs"
    /\ UNCHANGED notFetch
    /\ \E status \in StatusCodes, ms \in MultiscalesChoices :
         LET body == [json |-> [multiscales |-> ms], layout |-> serverLayout]
         IN  /\ log' = Append(log, [op |-> "get", name |-> <<".zattrs">>])
             /\ IF status = 200
                THEN /\ zattrs' = Parse(body)
                     /\ served' = Put(served, <<".zattrs">>, body)
                     /\ pc' = "multiscales"
                     /\ UNCHANGED <<exitStatus, reported>>
                ELSE /\ Exit(2, [msg |-> "no image found", at |-> <<>>])
                     /\ UNCHANGED <<zattrs, served>>
    /\ UNCHANGED <<dry_run, serverLayout, zgroup, zarray, datasets, di, todo,
                   visited, response, files, dirs>>

\* lines 64-72: with no multiscale, datasets is never bound and line 72 raises
SelectMultiscale ==
    /\ pc = "multiscales"
    /\ UNCHANGED notFetch
    /\ LET multiscales == zattrs.multiscales
           is_multiscale == Len(multiscales) > 0
       IN  IF is_multiscale
           THEN /\ datasets' = multiscales[1].datasets
                /\ pc' = "dataset_loop"
                /\ UNCHANGED <<exitStatus, reported>>
           ELSE /\ Exit(1, [msg |-> "NameError", at |-> <<>>])
                /\ UNCHANGED datasets
    /\ UNCHANGED <<dry_run, serverLayout, zgroup, zattrs, zarray, di, todo,
                   visited, response, served, files, dirs, log>>

\* lines 72-87: the next dataset's .zarray and its chunk iterator
GetZarray ==
    /\ pc = "dataset_loop"
    /\ UNCHANGED notFetch
    /\ di <= Len(datasets)
    /\ \E status \in StatusCodes, d \in FetchDescriptors :
         LET dataset == datasets[di]
             name == LocalPrefix(dataset) \o <<".zarray">>
             body == [json |-> d, layout |-> serverLayout]
         IN  /\ log' = Append(log, [op |-> "get", name |-> name])
             /\ IF status = 200
                THEN /\ zarray' = Parse(body)
                     /\ served' = Put(served, name, body)
                     /\ todo' = Product(Ranges(Parse(body).shape, Parse(body).chunks))
                     /\ visited' = <<>>
                     /\ pc' = "chunk_loop"
                     /\ UNCHANGED <<exitStatus, reported>>
                ELSE /\ Exit(2, [msg |-> "no resolution found",
                                 at |-> LocalPrefix(dataset)])
                     /\ UNCHANGED <<zarray, served, todo, visited>>
    /\ UNCHANGED <<dry_run, serverLayout, zgroup, zattrs, datasets, di, response,
                   files, dirs>>

\* lines 87-95: --dry-run, a HEAD request for the next chunk
CheckChunk ==
    /\ pc = "chunk_loop"
    /\ UNCHANGED notFetch
    /\ todo # <<>>
    /\ dry_run
    /\ \E status \in StatusCodes :
         LET chunk == Head(todo)
             name == LocalPrefix(datasets[di]) \o ChunkName(chunk)
         IN  /\ log' = Append(log, [op |-> "head", name |-> name])
             /\ IF status # 200
                THEN /\ Exit(2, [msg |-> "check failed for chunk",
                                 at |-> ChunkName(chunk)])
                     /\ UNCHANGED <<todo, visited>>
                ELSE /\ todo' = Tail(todo)
                     /\ visited' = Append(visited, chunk)
                     /\ UNCHANGED <<pc, exitStatus, reported>>
    /\ UNCHANGED <<dry_run, serverLayout, zgroup, zattrs, zarray, datasets, di,
                   response, served, files, dirs>>

\* FetchChunk with the status test after the write: a failed response is stored too
FetchChunkStoreAnyway ==
    /\ pc = "chunk_loop"
    /\ UNCHANGED notFetch
    /\ todo # <<>>
    /\ ~dry_run
    /\ \E status \in StatusCodes :
         LET chunk == Head(todo)
             name == LocalPrefix(datasets[di]) \o ChunkName(chunk)
         IN  /\ IF status = 200
                THEN /\ response' = ChunkContent(datasets[di], chunk)
                     /\ pc' = "store"
                     /\ log' = Append(log, [op |-> "get", name |-> name])
                     /\ UNCHANGED <<exitStatus, reported, files, dirs>>
                ELSE /\ Exit(2, [msg |-> "failed to fetch chunk",
                                 at |-> ChunkName(chunk)])
                     /\ files' = Put(files, name, <<>>)
                     /\ dirs' = dirs \cup {Dirname(name)}
                     /\ log' = log \o <<[op |-> "write", name |-> name],
                                        [op |-> "get", name |-> name]>>
                     /\ UNCHANGED response
    /\ UNCHANGED <<dry_run, serverLayout, zgroup, zattrs, zarray, datasets, di,
                   todo, visited, served>>

\* lines 87-89, 98-99, 106-108: the GET of the next chunk
FetchChunk ==
    /\ pc = "chunk_loop"
    /\ UNCHANGED notFetch
    /\ todo # <<>>
    /\ ~dry_run
    /\ \E status \in StatusCodes :
         LET chunk == Head(todo)
             name == LocalPrefix(datasets[di]) \o ChunkName(chunk)
         IN  /\ log' = Append(log, [op |-> "get", name |-> name])
             /\ IF status = 200
                THEN /\ response' = ChunkContent(datasets[di], chunk)
                     /\ pc' = "store"
                     /\ UNCHANGED <<exitStatus, reported>>
                ELSE /\ Exit(2, [msg |-> "failed to fetch chunk",
                                 at |-> ChunkName(chunk)])
                     /\ UNCHANGED response
    /\ UNCHANGED <<dry_run, serverLayout, zgroup, zattrs, zarray, datasets, di,
                   todo, visited, served, files, dirs>>

\* StoreChunk with the GET of the next coordinate issued before the write is done
StoreChunkPipelined ==
    /\ pc = "store"
    /\ UNCHANGED notFetch
    /\ LET chunk == Head(todo)
           filename == LocalPrefix(datasets[di]) \o ChunkName(chunk)
           parent_dir == Dirname(filename)
           ahead == IF Len(todo) > 1
                    THEN <<[op |-> "get",
                            name |-> LocalPrefix(datasets[di]) \o ChunkName(todo[2])]>>
                    ELSE <<>>
       IN  /\ dirs' = IF parent_dir # <<>> THEN dirs \cup {parent_dir} ELSE dirs
           /\ files' = Put(files, filename, response)
           /\ log' = (log \o ahead) \o <<[op |-> "write", name |-> filename]>>
           /\ todo' = Tail(todo)
           /\ visited' = Append(visited, chunk)
    /\ response' = <<>>
    /\ pc' = "chunk_loop"
    /\ UNCHANGED <<exitStatus, reported, dry_run, serverLayout, zgroup, zattrs,
                   zarray, datasets, di, served>>

\* lines 100-105: the fetched chunk is written under the dataset's directory
StoreChunk ==
    /\ pc = "store"
    /\ UNCHANGED notFetch
    /\ LET chunk == Head(todo)
           filename == LocalPrefix(datasets[di]) \o ChunkName(chunk)
           parent_dir == Dirname(filename)
       IN  /\ dirs' = IF parent_dir # <<>> THEN dirs \cup {parent_dir} ELSE dirs
           /\ files' = Put(files, filename, response)
           /\ log' = Append(log, [op |-> "write", name |-> filename])
           /\ todo' = Tail(todo)
           /\ visited' = Append(visited, chunk)
    /\ response' = <<>>
    /\ pc' = "chunk_loop"
    /\ UNCHANGED <<exitStatus, reported, dry_run, serverLayout, zgroup, zattrs,
                   zarray, datasets, di, served>>

\* WriteZarray placed inside the chunk loop: the descriptor is written without
\* waiting for the iterator to be exhausted
WriteZarrayEarly ==
    /\ pc = "chunk_loop"
    /\ UNCHANGED notFetch
    /\ LET filename == LocalPrefix(datasets[di]) \o <<".zarray">>
       IN  IF Dirname(filename) \in dirs
           THEN /\ files' = Put(files, filename, WriteLine(Dumps(zarray)))
                /\ log' = Append(log, [op |-> "write", name |-> filename])
                /\ di' = di + 1
                /\ pc' = "dataset_loop"
                /\ UNCHANGED <<exitStatus, reported>>
           ELSE /\ Exit(1, [msg |-> "FileNotFoundError", at |-> filename])
                /\ UNCHANGED <<files, log, di>>
    /\ UNCHANGED <<dry_run, serverLayout, zgroup, zattrs, zarray, datasets, todo,
                   visited, response, served, dirs>>

\* line 110: runs once the iterator is exhausted, whatever the mode;
\* open(..., 'w') raises FileNotFoundError when the directory is missing
WriteZarray ==
    /\ pc = "chunk_loop"
    /\ UNCHANGED notFetch
    /\ todo = <<>>
    /\ LET filename == LocalPrefix(datasets[di]) \o <<".zarray">>
       IN  IF Dirname(filename) \in dirs
           THEN /\ files' = Put(files, filename, WriteLine(Dumps(zarray)))
                /\ log' = Append(log, [op |-> "write", name |-> filename])
                /\ di' = di + 1
                /\ pc' = "dataset_loop"
                /\ UNCHANGED <<exitStatus, reported>>
           ELSE /\ Exit(1, [msg |-> "FileNotFoundError", at |-> filename])
                /\ UNCHANGED <<files, log, di>>
    /\ UNCHANGED <<dry_run, serverLayout, zgroup, zattrs, zarray, datasets, todo,
                   visited, response, served, dirs>>

\* WriteGroupMeta with the two documents written to each other's file
WriteGroupMetaSwapped ==
    /\ pc = "dataset_loop"
    /\ UNCHANGED notFetch
    /\ di > Len(datasets)
    /\ files' = Put(Put(files, <<".zgroup">>, WriteLine(Dumps(zattrs))),
                    <<".zattrs">>, WriteLine(Dumps(zgroup)))
    /\ log' = log \o <<[op |-> "write", name |-> <<".zgroup">>],
                       [op |-> "write", name |-> <<".zattrs">>]>>
    /\ pc' = "done"
    /\ exitStatus' = 0
    /\ UNCHANGED <<reported, dry_run, serverLayout, zgroup, zattrs, zarray,
                   datasets, di, todo, visited, response, served, dirs>>

\* lines 112-114: after the last dataset
WriteGroupMeta ==
    /\ pc = "dataset_loop"
    /\ UNCHANGED notFetch
    /\ di > Len(datasets)
    /\ files' = Put(Put(files, <<".zgroup">>, WriteLine(Dumps(zgroup))),
                    <<".zattrs">>, WriteLine(Dumps(zattrs)))
    /\ log' = log \o <<[op |-> "write", name |-> <<".zgroup">>],
                       [op |-> "write", name |-> <<".zattrs">>]>>
    /\ pc' = "done"
    /\ exitStatus' = 0
    /\ UNCHANGED <<reported, dry_run, serverLayout, zgroup, zattrs, zarray,
                   datasets, di, todo, visited, response, served, dirs>>

NextFetch ==
    \/ GetZgroup
    \/ GetZattrs
    \/ SelectMultiscale
    \/ GetZarray
    \/ CheckChunk
    \/ FetchChunk
    \/ StoreChunk
    \/ WriteZarray
    \/ WriteGroupMeta

SpecFetch == InitFetch /\ [][NextFetch]_vars

------------------------------------------------------------------------------
(* The chunk loop of fetch-ms-zarr.py on its own, lines 84-89 *)

EnumDescriptors ==
    UNION {{[shape |-> s, chunks |-> c] :
                s \in [1..r -> 0..EnumMaxShape], c \in [1..r -> 1..EnumMaxChunk]} :
           r \in EnumRanks}

InitEnum ==
    /\ script = "fetch-ms-zarr.py"
    /\ pc = "chunk_loop"
    /\ exitStatus = -1
    /\ reported = <<>>
    /\ dry_run = TRUE
    /\ serverLayout = [style |-> "dumps", newline |-> TRUE]
    /\ zgroup = <<>>
    /\ zattrs = <<>>
    /\ zarray \in EnumDescriptors
    /\ datasets = <<[path |-> DatasetPaths[1]]>>
    /\ di = 1
    /\ todo = Product(Ranges(zarray.shape, zarray.chunks))
    /\ visited = <<>>
    /\ response = <<>>
    /\ served = <<>>
    /\ files = <<>>
    /\ dirs = {}
    /\ log = <<>>
    /\ IdrIdle
    /\ ScaleIdle
    /\ XarrayIdle
    /\ ZarrIdle

\* line 87: the iterator yields its next coordinate
VisitChunk ==
    /\ pc = "chunk_loop"
    /\ UNCHANGED notFetch
    /\ todo # <<>>
    /\ visited' = Append(visited, Head(todo))
    /\ todo' = Tail(todo)
    /\ UNCHANGED <<pc, exitStatus, reported, dry_run, serverLayout, zgroup, zattrs,
                   zarray, datasets, di, response, served, files, dirs, log>>

\* line 87: the iterator is exhausted
EndOfChunks ==
    /\ pc = "chunk_loop"
    /\ UNCHANGED notFetch
    /\ todo = <<>>
    /\ pc' = "end_of_chunks"
    /\ UNCHANGED <<exitStatus, reported, fetchVars>>

NextEnum == VisitChunk \/ EndOfChunks

SpecEnum == InitEnum /\ [][NextEnum]_vars

------------------------------------------------------------------------------
(* idr-image2zarr.py: the resumable download of planes, lines 16-41 *)

\* '{:03d}'.format(n) for a one-digit n
Pad3(n) == <<"0", "0", Str(n)>>

\* '{:03d}-{:03d}-{:03d}.npy'.format(z, c, t), inside the image's directory
PlaneFile(zct) ==
    Pad3(zct[1]) \o <<"-">> \o Pad3(zct[2]) \o <<"-">> \o Pad3(zct[3]) \o <<".npy">>

\* the image sizes the server may report
IdrShapes ==
    {<<1, 1, z, c, t>> : z \in 1..IdrMaxSize, c \in 1..IdrMaxSize, t \in 1..IdrMaxSize}

\* itertools.product(*map(range, shape[2:]))
Zcts(shp) == Product([i \in 1..3 |-> Range(0, shp[i + 2])])

\* lines 25-30: connected, the directory made; earlier runs may have left files
InitIdr ==
    /\ script = "idr-image2zarr.py"
    /\ pc = "plane_loop"
    /\ exitStatus = -1
    /\ reported = <<>>
    /\ shape \in IdrShapes
    /\ zcts = Zcts(shape)
    /\ \E left \in SUBSET {PlaneFile(Zcts(shape)[i]) : i \in 1..Len(Zcts(shape))} :
          /\ Cardinality(left) <= IdrMaxExisting
          /\ planeFiles = left
    /\ plane = <<>>
    /\ idrLog = <<>>
    /\ FetchIdle
    /\ ScaleIdle
    /\ XarrayIdle
    /\ ZarrIdle

\* SkipPlane without its continue: an existing plane is requested and saved again
SkipPlaneStillFetches ==
    /\ pc = "plane_loop"
    /\ UNCHANGED notIdr
    /\ zcts # <<>>
    /\ PlaneFile(Head(zcts)) \in planeFiles
    /\ idrLog' = idrLog \o <<[op |-> "exists", zct |-> Head(zcts)],
                             [op |-> "getPlane", zct |-> Head(zcts)]>>
    /\ plane' = [zct |-> Head(zcts)]
    /\ pc' = "save"
    /\ UNCHANGED <<exitStatus, reported, shape, zcts, planeFiles>>

\* lines 32-36: the file exists, the coordinate is skipped
SkipPlane ==
    /\ pc = "plane_loop"
    /\ UNCHANGED notIdr
    /\ zcts # <<>>
    /\ PlaneFile(Head(zcts)) \in planeFiles
    /\ idrLog' = Append(idrLog, [op |-> "exists", zct |-> Head(zcts)])
    /\ zcts' = Tail(zcts)
    /\ UNCHANGED <<pc, exitStatus, reported, shape, planeFiles, plane>>

\* lines 32-38: the file is missing, the plane is requested; getPlane may raise
GetPlane ==
    /\ pc = "plane_loop"
    /\ UNCHANGED notIdr
    /\ zcts # <<>>
    /\ PlaneFile(Head(zcts)) \notin planeFiles
    /\ idrLog' = idrLog \o <<[op |-> "exists", zct |-> Head(zcts)],
                             [op |-> "getPlane", zct |-> Head(zcts)]>>
    /\ \E ok \in BOOLEAN :
         IF ok
         THEN /\ plane' = [zct |-> Head(zcts)]
              /\ pc' = "save"
              /\ UNCHANGED <<exitStatus, reported>>
         ELSE /\ Exit(1, [msg |-> "getPlane raised", at |-> Head(zcts)])
              /\ UNCHANGED plane
    /\ UNCHANGED <<shape, zcts, planeFiles>>

\* line 39: np.save(filename, p)
SavePlane ==
    /\ pc = "save"
    /\ UNCHANGED notIdr
    /\ planeFiles' = planeFiles \cup {PlaneFile(Head(zcts))}
    /\ idrLog' = Append(idrLog, [op |-> "save", zct |-> plane.zct])
    /\ plane' = <<>>
    /\ zcts' = Tail(zcts)
    /\ pc' = "plane_loop"
    /\ UNCHANGED <<exitStatus, reported, shape>>

\* line 41: the iterator is exhausted, conn.close()
EndOfPlanes ==
    /\ pc = "plane_loop"
    /\ UNCHANGED notIdr
    /\ zcts = <<>>
    /\ pc' = "downloaded"
    /\ UNCHANGED <<exitStatus, reported, idrVars>>

NextIdr ==
    \/ SkipPlane
    \/ GetPlane
    \/ SavePlane
    \/ EndOfPlanes

SpecIdr == InitIdr /\ [][NextIdr]_vars

------------------------------------------------------------------------------
(* scale.py: arrays and reduction methods *)

\* lines 25-31
METHODS == <<"nearest", "zoom", "local_mean", "gaussian", "laplacian">>

\* the values of --downscale the model runs with
Downscales == {2, 3}

\* the pixel values an array may hold, and the sets np.unique may return
Labels == {0, 1}
LabelSets == (SUBSET Labels) \ {{}}

\* the parsed arguments, lines 33-52
Args ==
    [method : {METHODS[i] : i \in 1..Len(METHODS)},
     labeled : BOOLEAN,
     copy_metadata : BOOLEAN,
     in_place : BOOLEAN,
     downscale : Downscales,
     max_layer : 0..ScaleMaxLayer]

RECURSIVE Pow(_, _)
Pow(b, e) == IF e = 0 THEN 1 ELSE b * Pow(b, e - 1)

\* int(round(n / d)), Python rounding a tie to the even neighbour
RoundDiv(n, d) ==
    LET q == (2 * n + d) \div (2 * d)
    IN  IF (2 * n + d) % (2 * d) = 0 /\ q % 2 = 1 THEN q - 1 ELSE q

Reversed(seq) == [i \in 1..Len(seq) |-> seq[Len(seq) + 1 - i]]

\* An array is the input array or the result of an operation on another array;
\* its shape is (T, C, Z, Y, X).
BaseArray(shp) == [op |-> "base", of |-> <<>>, factor |-> <<1, 1>>, shape |-> shp]

\* the input arrays: zarr.open_array(ns.input_array)
BaseArrays == {BaseArray(<<1, 1, 1, y, x>>) : y \in 1..ScaleMaxExtent,
                                             x \in 1..ScaleMaxExtent}

\* lines 62-74: every plane resized with dsize=(Y//downscale, X//downscale);
\* cv2 takes dsize as (width, height), so a plane comes out X//downscale rows
\* by Y//downscale columns
Nearest(fiveD, downscale) ==
    [op |-> "nearest", of |-> <<fiveD>>, factor |-> <<1, downscale>>,
     shape |-> <<fiveD.shape[1], fiveD.shape[2], fiveD.shape[3],
                 fiveD.shape[5] \div downscale, fiveD.shape[4] \div downscale>>]

\* cv2.resize raises when dsize has a zero extent
ResizeRaises(fiveD, downscale) ==
    fiveD.shape[4] \div downscale = 0 \/ fiveD.shape[5] \div downscale = 0

\* line 94: downscale_local_mean(rv[-1], factors=(1, 1, 1, downscale, downscale)),
\* which pads each extent up to a multiple of its factor
LocalMean(a, downscale) ==
    [op |-> "local_mean", of |-> <<a>>, factor |-> <<1, downscale>>,
     shape |-> <<a.shape[1], a.shape[2], a.shape[3],
                 (a.shape[4] + downscale - 1) \div downscale,
                 (a.shape[5] + downscale - 1) \div downscale>>]

\* scipy.ndimage.zoom(a, num/den): every extent scaled and rounded; zoom by 1
\* gives the values of a back
ZoomBy(a, num, den) ==
    IF num = den THEN a
    ELSE [op |-> "zoom", of |-> <<a>>, factor |-> <<num, den>>,
          shape |-> [i \in 1..Len(a.shape) |-> RoundDiv(a.shape[i] * num, den)]]

\* line 104: zoom(base, ns.downscale**i)
Zoom(a, f) == ZoomBy(a, f, 1)

\* skimage pyramid_reduce: every extent divided by downscale, rounded up
PyramidReduce(a, downscale) ==
    [op |-> "pyramid_reduce", of |-> <<a>>, factor |-> <<1, downscale>>,
     shape |-> [i \in 1..Len(a.shape) |-> (a.shape[i] + downscale - 1) \div downscale]]

\* the layers after the first: the generator stops at max_layer or as soon as a
\* reduction leaves the shape unchanged
RECURSIVE GaussianLayers(_, _, _)
GaussianLayers(prev, downscale, layers) ==
    IF layers = 0 THEN <<>>
    ELSE LET next == PyramidReduce(prev, downscale)
         IN  IF next.shape = prev.shape THEN <<>>
             ELSE <<next>> \o GaussianLayers(next, downscale, layers - 1)

\* line 81: list(pyramid_gaussian(base, downscale, max_layer)); the first layer
\* is the image itself
PyramidGaussian(b, downscale, max_layer) ==
    <<b>> \o GaussianLayers(b, downscale, max_layer)

\* a layer of the Laplacian pyramid: a reduction minus its smoothed version
LaplacianOf(a) == [op |-> "laplacian", of |-> <<a>>, factor |-> <<1, 1>>,
                   shape |-> a.shape]

\* line 86: list(pyramid_laplacian(base, downscale, max_layer)); the first layer
\* is the image minus its smoothed version
PyramidLaplacian(b, downscale, max_layer) ==
    LET g == PyramidGaussian(b, downscale, max_layer)
    IN  [i \in 1..Len(g) |-> LaplacianOf(g[i])]

\* LabelsOk with the test the wrong way round: expected.issubset(found)
LabelsOkReversed(exp, found) == exp \subseteq found

\* line 130: expected.issuperset(found)
LabelsOk(exp, found) == found \subseteq exp

\* "%s" % i
PathOf(i) == IF i = 0 THEN "base" ELSE Str(i)

------------------------------------------------------------------------------
(* scale.py: the run *)

InitScale ==
    /\ script = "scale.py"
    /\ pc = "check_output"
    /\ exitStatus = -1
    /\ reported = <<>>
    /\ ns \in Args
    /\ outputExists \in BOOLEAN
    /\ base = <<>>
    /\ rv = <<>>
    /\ pyramid = <<>>
    /\ expected = {}
    /\ uniques = <<>>
    /\ level = 0
    /\ store = <<>>
    /\ attrs = <<>>
    /\ series = <<>>
    /\ inputReads = <<>>
    /\ FetchIdle
    /\ IdrIdle
    /\ XarrayIdle
    /\ ZarrIdle

\* CheckOutput with the assert statement not executed
CheckOutputSkipped ==
    /\ pc = "check_output"
    /\ UNCHANGED notScale
    /\ pc' = "open"
    /\ UNCHANGED <<exitStatus, reported>>
    /\ UNCHANGED scaleVars

\* lines 112-114: assert not os.path.exists(ns.output_directory)
CheckOutput ==
    /\ pc = "check_output"
    /\ UNCHANGED notScale
    /\ IF outputExists
       THEN Exit(1, [msg |-> "AssertionError", at |-> <<>>])
       ELSE pc' = "open" /\ UNCHANGED <<exitStatus, reported>>
    /\ UNCHANGED scaleVars

\* line 118 and the first line of method(base): rv = [base]
OpenBase ==
    /\ pc = "open"
    /\ UNCHANGED notScale
    /\ \E b \in BaseArrays :
         /\ base' = b
         /\ rv' = <<b>>
    /\ inputReads' = Append(inputReads, "open_array")
    /\ pc' = "method"
    /\ UNCHANGED <<exitStatus, reported, ns, outputExists, pyramid, expected,
                   uniques, level, store, attrs, series>>

\* lines 59-75: one iteration of the loop of the nearest method
BuildNearest ==
    /\ pc = "method"
    /\ UNCHANGED notScale
    /\ ns.method = "nearest"
    /\ Len(rv) - 1 < ns.max_layer
    /\ IF ResizeRaises(rv[Len(rv)], ns.downscale)
       THEN Exit(1, [msg |-> "cv2.error", at |-> <<Len(rv)>>]) /\ UNCHANGED rv
       ELSE /\ rv' = Append(rv, Nearest(rv[Len(rv)], ns.downscale))
            /\ UNCHANGED <<pc, exitStatus, reported>>
    /\ UNCHANGED <<ns, outputExists, base, pyramid, expected, uniques, level,
                   store, attrs, series, inputReads>>

\* lines 93-94: one iteration of the loop of the local_mean method
BuildLocalMean ==
    /\ pc = "method"
    /\ UNCHANGED notScale
    /\ ns.method = "local_mean"
    /\ Len(rv) - 1 < ns.max_layer
    /\ rv' = Append(rv, LocalMean(rv[Len(rv)], ns.downscale))
    /\ UNCHANGED <<pc, exitStatus, reported, ns, outputExists, base, pyramid,
                   expected, uniques, level, store, attrs, series, inputReads>>

\* lines 102-105: one iteration of the loop of the zoom method, i = len(rv) - 1
BuildZoom ==
    /\ pc = "method"
    /\ UNCHANGED notScale
    /\ ns.method = "zoom"
    /\ Len(rv) - 1 < ns.max_layer
    /\ rv' = Append(rv, Zoom(base, Pow(ns.downscale, Len(rv) - 1)))
    /\ UNCHANGED <<pc, exitStatus, reported, ns, outputExists, base, pyramid,
                   expected, uniques, level, store, attrs, series, inputReads>>

\* lines 80-86: the gaussian and laplacian methods return the library's list
BuildLibraryPyramid ==
    /\ pc = "method"
    /\ UNCHANGED notScale
    /\ ns.method \in {"gaussian", "laplacian"}
    /\ pyramid' = IF ns.method = "gaussian"
                  THEN PyramidGaussian(base, ns.downscale, ns.max_layer)
                  ELSE PyramidLaplacian(base, ns.downscale, ns.max_layer)
    /\ pc' = IF ns.labeled THEN "assert_values" ELSE "prepare"
    /\ UNCHANGED <<exitStatus, reported, ns, outputExists, base, rv, expected,
                   uniques, level, store, attrs, series, inputReads>>

\* lines 76, 95, 106 and 119: the loop is over, pyramid = method(base);
\* the zoom method returns list(reversed(rv))
ReturnPyramid ==
    /\ pc = "method"
    /\ UNCHANGED notScale
    /\ ns.method \in {"nearest", "local_mean", "zoom"}
    /\ Len(rv) - 1 = ns.max_layer
    /\ pyramid' = IF ns.method = "zoom" THEN Reversed(rv) ELSE rv
    /\ pc' = IF ns.labeled THEN "assert_values" ELSE "prepare"
    /\ UNCHANGED <<exitStatus, reported, ns, outputExists, base, rv, expected,
                   uniques, level, store, attrs, series, inputReads>>

\* lines 123-125: expected = set(np.unique(pyramid[0]))
ReadExpected ==
    /\ pc = "assert_values"
    /\ UNCHANGED notScale
    /\ expected' \in LabelSets
    /\ level' = 1
    /\ pc' = "validate"
    /\ UNCHANGED <<exitStatus, reported, ns, outputExists, base, rv, pyramid,
                   uniques, store, attrs, series, inputReads>>

\* lines 126-131: one iteration of the validation loop, i = level
ValidateLevel ==
    /\ pc = "validate"
    /\ UNCHANGED notScale
    /\ level < Len(pyramid)
    /\ \E found \in LabelSets :
         /\ uniques' = Append(uniques, found)
         /\ IF ~LabelsOk(expected, found)
            THEN Exit(1, [msg |-> "found values are not a subset", at |-> <<level>>])
                 /\ UNCHANGED level
            ELSE level' = level + 1 /\ UNCHANGED <<pc, exitStatus, reported>>
    /\ UNCHANGED <<ns, outputExists, base, rv, pyramid, expected, store, attrs,
                   series, inputReads>>

\* line 126: the validation loop is over
ValidationDone ==
    /\ pc = "validate"
    /\ UNCHANGED notScale
    /\ level >= Len(pyramid)
    /\ pc' = "prepare"
    /\ UNCHANGED <<exitStatus, reported, scaleVars>>

\* lines 134-140: the group, its "base" dataset, the copied attributes
PrepareStore ==
    /\ pc = "prepare"
    /\ UNCHANGED notScale
    /\ store' = Put(store, "base", base)
    /\ attrs' = IF ns.copy_metadata THEN Put(attrs, "omero", "base.attrs") ELSE attrs
    /\ series' = <<>>
    /\ level' = 0
    /\ pc' = "generate"
    /\ UNCHANGED <<exitStatus, reported, ns, outputExists, base, rv, pyramid,
                   expected, uniques, inputReads>>

\* lines 145-151: one iteration of the dataset loop, i = level
GenerateDataset ==
    /\ pc = "generate"
    /\ UNCHANGED notScale
    /\ level < Len(pyramid)
    /\ store' = IF level = 0 THEN store
                ELSE Put(store, PathOf(level), pyramid[level + 1])
    /\ series' = Append(series, [path |-> PathOf(level)])
    /\ level' = level + 1
    /\ UNCHANGED <<pc, exitStatus, reported, ns, outputExists, base, rv, pyramid,
                   expected, uniques, attrs, inputReads>>

\* lines 153-162: grp.attrs["multiscales"] = multiscales, and the script ends
WriteMultiscales ==
    /\ pc = "generate"
    /\ UNCHANGED notScale
    /\ level >= Len(pyramid)
    /\ attrs' = Put(attrs, "multiscales",
                    <<[version |-> "0.1", name |-> "default", datasets |-> series,
                       type |-> ns.method]>>)
    /\ pc' = "done"
    /\ exitStatus' = 0
    /\ UNCHANGED <<reported, ns, outputExists, base, rv, pyramid, expected,
                   uniques, level, store, series, inputReads>>

NextScale ==
    \/ CheckOutput
    \/ OpenBase
    \/ BuildNearest
    \/ BuildLocalMean
    \/ BuildZoom
    \/ BuildLibraryPyramid
    \/ ReturnPyramid
    \/ ReadExpected
    \/ ValidateLevel
    \/ ValidationDone
    \/ PrepareStore
    \/ GenerateDataset
    \/ WriteMultiscales

SpecScale == InitScale /\ [][NextScale]_vars

------------------------------------------------------------------------------
(* omero_to_zarr.py: image_to_xarray, lines 23-66 *)

\* the sizes an image may have
Images ==
    [size_c : 1..XarrayMaxSize, size_z : 1..XarrayMaxSize, size_t : 1..XarrayMaxSize]

\* line 33: zct_list = [(z, c, t) for t in range(st) for z in range(sz)]
ZctList(img, c) ==
    [i \in 1..(img.size_t * img.size_z) |->
        <<(i - 1) % img.size_z, c, (i - 1) \div img.size_z>>]

\* lines 34-45: the planes of the list, as one stack when sz == 1 or st == 1
\* (a 3-dimensional array), else as one stack per t (a 4-dimensional array)
GetData(img, c) ==
    LET sz == img.size_z
        st == img.size_t
        planes == [i \in 1..(st * sz) |-> [zct |-> ZctList(img, c)[i]]]
    IN  IF sz = 1 \/ st = 1
        THEN [ndim |-> 3, values |-> planes]
        ELSE [ndim |-> 4,
              values |-> [t \in 1..st |-> SubSeq(planes, (t - 1) * sz + 1, t * sz)]]

InitXarray ==
    /\ script = "omero_to_zarr.py"
    /\ pc = "check_name"
    /\ exitStatus = -1
    /\ reported = <<>>
    /\ image \in Images
    /\ nameExists \in BOOLEAN
    /\ idx = 0
    /\ xr_data = <<>>
    /\ planeReads = <<>>
    /\ written = <<>>
    /\ FetchIdle
    /\ IdrIdle
    /\ ScaleIdle
    /\ ZarrIdle

\* lines 50-55: an existing store is reported and the function returns
CheckName ==
    /\ pc = "check_name"
    /\ UNCHANGED notXarray
    /\ IF nameExists
       THEN /\ reported' = [msg |-> "already exists!", at |-> <<>>]
            /\ pc' = "done"
            /\ exitStatus' = 0
       ELSE /\ pc' = "channels"
            /\ UNCHANGED <<exitStatus, reported>>
    /\ UNCHANGED xarrayVars

\* lines 58-63: one iteration of the channel loop
ReadChannel ==
    /\ pc = "channels"
    /\ UNCHANGED notXarray
    /\ idx < image.size_c
    /\ planeReads' = Append(planeReads, ZctList(image, idx))
    /\ xr_data' = Put(xr_data, Str(idx), GetData(image, idx))
    /\ idx' = idx + 1
    /\ UNCHANGED <<pc, exitStatus, reported, image, nameExists, written>>

\* lines 65-66: xr.Dataset raises unless every channel has the 3 dimensions
\* ('z', 'y', 'x'); otherwise ds.to_zarr(name) writes the store
ToZarr ==
    /\ pc = "channels"
    /\ UNCHANGED notXarray
    /\ idx >= image.size_c
    /\ IF \E k \in DOMAIN xr_data : xr_data[k].ndim # 3
       THEN Exit(1, [msg |-> "ValueError", at |-> <<>>]) /\ UNCHANGED written
       ELSE /\ written' = xr_data
            /\ pc' = "done"
            /\ exitStatus' = 0
            /\ UNCHANGED reported
    /\ UNCHANGED <<image, nameExists, idx, xr_data, planeReads>>

NextXarray ==
    \/ CheckName
    \/ ReadChannel
    \/ ToZarr

SpecXarray == InitXarray /\ [][NextXarray]_vars

(* omero_to_zarr.py: image_to_zarr, lines 69-108 *)

\* the sizes an image may have
ZarrImages ==
    [size_c : 1..ZarrMaxSize, size_z : 1..ZarrMaxSize, size_t : 1..ZarrMaxSize]

\* the list with t outermost and z innermost, the order get_data uses
ZctListTimeMajor(img) ==
    [i \in 1..(img.size_z * img.size_c * img.size_t) |->
        <<(i - 1) % img.size_z,
          ((i - 1) \div img.size_z) % img.size_c,
          (i - 1) \div (img.size_z * img.size_c)>>]

\* lines 81-85: zct_list, z outermost, then c, then t
NestedZctList(img) ==
    [i \in 1..(img.size_z * img.size_c * img.size_t) |->
        <<(i - 1) \div (img.size_c * img.size_t),
          ((i - 1) \div img.size_t) % img.size_c,
          (i - 1) % img.size_t>>]

\* the plane the server holds at (z, c, t)
PlaneAt(zct) == [z |-> zct[1], c |-> zct[2], t |-> zct[3]]

\* lines 94-97: the indices of the iteration after l; z reaches size_z at the end
NextIndices(img, l) ==
    IF l.t + 1 < img.size_t THEN [l EXCEPT !.t = l.t + 1]
    ELSE IF l.c + 1 < img.size_c THEN [l EXCEPT !.c = l.c + 1, !.t = 0]
    ELSE [z |-> l.z + 1, c |-> 0, t |-> 0]

InitZarr ==
    /\ script = "omero_to_zarr.py"
    /\ pc = "image_to_zarr"
    /\ exitStatus = -1
    /\ reported = <<>>
    /\ zimage \in ZarrImages
    /\ zct_list = <<>>
    /\ yielded = 0
    /\ zplane = <<>>
    /\ zloop = <<>>
    /\ za = <<>>
    /\ requested = <<>>
    /\ assigned = <<>>
    /\ FetchIdle
    /\ IdrIdle
    /\ ScaleIdle
    /\ XarrayIdle

\* lines 71-94: the list is built and the generator created; nothing is read yet
BuildZctList ==
    /\ pc = "image_to_zarr"
    /\ UNCHANGED notZarr
    /\ zct_list' = NestedZctList(zimage)
    /\ zloop' = [z |-> 0, c |-> 0, t |-> 0]
    /\ pc' = "loop"
    /\ UNCHANGED <<exitStatus, reported, zimage, yielded, zplane, za, requested,
                   assigned>>

\* line 98: next(planes) reads the plane of the generator's next list entry, or
\* raises StopIteration when the list is used up
NextPlane ==
    /\ pc = "loop"
    /\ UNCHANGED notZarr
    /\ zloop.z < zimage.size_z
    /\ IF yielded < Len(zct_list)
       THEN /\ requested' = Append(requested, zct_list[yielded + 1])
            /\ zplane' = PlaneAt(zct_list[yielded + 1])
            /\ yielded' = yielded + 1
            /\ pc' = IF za = <<>> THEN "open" ELSE "assign"
            /\ UNCHANGED <<exitStatus, reported>>
       ELSE /\ Exit(1, [msg |-> "StopIteration", at |-> <<>>])
            /\ UNCHANGED <<requested, zplane, yielded>>
    /\ UNCHANGED <<zimage, zct_list, zloop, za, assigned>>

\* lines 99-106: the array is created when the first plane has arrived
OpenZa ==
    /\ pc = "open"
    /\ UNCHANGED notZarr
    /\ za' = [shape |-> <<zimage.size_c, zimage.size_z, zimage.size_t>>,
              cells |-> <<>>]
    /\ pc' = "assign"
    /\ UNCHANGED <<exitStatus, reported, zimage, zct_list, yielded, zplane, zloop,
                   requested, assigned>>

\* lines 107-108 and the loop headers: za[c, z, t, :, :] = plane
AssignPlane ==
    /\ pc = "assign"
    /\ UNCHANGED notZarr
    /\ LET cell == <<zloop.c, zloop.z, zloop.t>>
       IN  /\ za' = [za EXCEPT !.cells = Put(za.cells, cell, zplane)]
           /\ assigned' = Append(assigned, cell)
    /\ zplane' = <<>>
    /\ zloop' = NextIndices(zimage, zloop)
    /\ pc' = "loop"
    /\ UNCHANGED <<exitStatus, reported, zimage, zct_list, yielded, requested>>

\* line 94: the outer loop ends and the function returns
EndOfZarrLoop ==
    /\ pc = "loop"
    /\ UNCHANGED notZarr
    /\ zloop.z >= zimage.size_z
    /\ pc' = "done"
    /\ exitStatus' = 0
    /\ UNCHANGED <<reported, zarrVars>>

NextZarr ==
    \/ BuildZctList
    \/ NextPlane
    \/ OpenZa
    \/ AssignPlane
    \/ EndOfZarrLoop

SpecZarr == InitZarr /\ [][NextZarr]_vars

------------------------------------------------------------------------------
\* the two scripts that need a destination that does not exist yet
InitFresh == InitScale \/ InitXarray

NextFresh == NextScale \/ NextXarray

SpecFresh == InitFresh /\ [][NextFresh]_vars

------------------------------------------------------------------------------
(* Properties of the chunk enumeration *)

\* ceil(s / c) for s >= 0, c > 0
CeilDiv(s, c) == (s + c - 1) \div c

\* the coordinates the loop of line 87 runs over: those yielded, then those to come
ChunkSeq == visited \o todo

\* a precedes b with index 1 the most significant
LexLess(a, b) ==
    \E i \in 1..Len(a) : a[i] < b[i] /\ \A j \in 1..(i - 1) : a[j] = b[j]

\* C1: for shape S and chunk sizes C the chunk loop runs over exactly
\* prod_i ceil(S[i]/C[i]) coordinates, each once, in lexicographic order with
\* dimension 0 slowest; every coordinate k has k[i]*C[i] < S[i]; the sequence is
\* empty when some S[i] is 0; when the loop ends all of them have been visited.
C1_Enumeration ==
    LET S == zarray.shape
        C == zarray.chunks
        seq == ChunkSeq
    IN  /\ Len(seq) = Prod([i \in 1..Len(S) |-> CeilDiv(S[i], C[i])])
        /\ \A m, n \in 1..Len(seq) : m < n => LexLess(seq[m], seq[n])
        /\ \A n \in 1..Len(seq) :
              /\ Len(seq[n]) = Len(S)
              /\ \A i \in 1..Len(S) : seq[n][i] >= 0 /\ seq[n][i] * C[i] < S[i]
        /\ (\E i \in 1..Len(S) : S[i] = 0) => seq = <<>>
        /\ pc = "end_of_chunks" => visited = seq

C1_Witness ==
    /\ pc = "end_of_chunks"
    /\ zarray.shape = <<5, 4>>
    /\ zarray.chunks = <<2, 2>>
    /\ visited = << <<0, 0>>, <<0, 1>>, <<1, 0>>, <<1, 1>>, <<2, 0>>, <<2, 1>> >>

------------------------------------------------------------------------------
(* Properties of the transfer run of fetch-ms-zarr.py *)

StartsWith(name, prefix) ==
    Len(name) >= Len(prefix) /\ SubSeq(name, 1, Len(prefix)) = prefix

IsChunkFileOf(name, dataset) ==
    /\ StartsWith(name, LocalPrefix(dataset))
    /\ name[Len(name)] # ".zarray"

\* the names written to chunk files of a dataset, in the order of the writes
ChunkWrites(dataset) ==
    SelectSeq(log, LAMBDA e : e.op = "write" /\ IsChunkFileOf(e.name, dataset))

\* C2: in a transfer run, when the GET of the k-th coordinate of the current
\* dataset fails, exactly the k-1 preceding chunks of that dataset have been
\* stored, in order, the run has halted with status 2 reporting that coordinate,
\* and no request or write exists for a later coordinate or a later dataset.
C2_FailFast ==
    (pc = "exit" /\ ~dry_run /\ reported.msg = "failed to fetch chunk") =>
        LET dataset == datasets[di]
            enum == Product(Ranges(zarray.shape, zarray.chunks))
            k == Len(visited) + 1
            nameOf(c) == LocalPrefix(dataset) \o ChunkName(c)
        IN  /\ k <= Len(enum)
            /\ visited = SubSeq(enum, 1, k - 1)
            /\ reported.at = ChunkName(enum[k])
            /\ exitStatus = 2
            /\ {n \in DOMAIN files : IsChunkFileOf(n, dataset)}
                   = {nameOf(enum[i]) : i \in 1..(k - 1)}
            /\ Cardinality({n \in DOMAIN files : IsChunkFileOf(n, dataset)}) = k - 1
            /\ ChunkWrites(dataset) =
                   [i \in 1..(k - 1) |-> [op |-> "write", name |-> nameOf(enum[i])]]
            /\ log[Len(log)] = [op |-> "get", name |-> nameOf(enum[k])]
            /\ \A i \in 1..Len(log) : \A j \in (k + 1)..Len(enum) :
                   log[i].name # nameOf(enum[j])
            /\ \A i \in 1..Len(log) : \A j \in (di + 1)..Len(datasets) :
                   ~StartsWith(log[i].name, LocalPrefix(datasets[j]))
            /\ ~ENABLED NextFetch

C2_Witness ==
    /\ pc = "exit"
    /\ ~dry_run
    /\ reported.msg = "failed to fetch chunk"
    /\ di = 2
    /\ Len(visited) = 2
    /\ Len(todo) = 2

\* C3: a --dry-run run writes no local file, whatever its outcome, and ends
\* successfully only if every chunk of every dataset was found at the source.
C3_DryRunWritesNothing ==
    dry_run =>
        /\ DOMAIN files = {}
        /\ \A i \in 1..Len(log) : log[i].op # "write"
        /\ pc = "done" => todo = <<>> /\ di > Len(datasets)

\* the local metadata files written so far
MetadataWritten == (DOMAIN files) \cap (DOMAIN served)

\* C10 as stated: every metadata document written locally is byte-for-byte the
\* document the source served.
C10_ByteIdentical ==
    \A n \in MetadataWritten : files[n] = served[n]

\* C10 amended: every metadata document written locally is the json.dumps
\* rendering, followed by a newline, of the value the served document parses to;
\* so it parses to the same value as the document served.
C10_SameJsonValue ==
    /\ \A n \in MetadataWritten :
          /\ Parse(files[n]) = Parse(served[n])
          /\ files[n].layout = [style |-> "dumps", newline |-> TRUE]
    /\ \A n \in DOMAIN files :
          n[Len(n)] \in {".zgroup", ".zattrs", ".zarray"} => n \in DOMAIN served

C10_Witness ==
    /\ pc = "done"
    /\ serverLayout.style = "indent"
    /\ {<<".zgroup">>, <<".zattrs">>, <<"0", "/", ".zarray">>, <<"1", "/", ".zarray">>}
           \subseteq MetadataWritten
    /\ \E n \in MetadataWritten : files[n] # served[n]

\* the chunk coordinates of the j-th dataset, from the .zarray the source served
EnumOf(j) ==
    LET n == LocalPrefix(datasets[j]) \o <<".zarray">>
    IN  IF n \in DOMAIN served
        THEN Product(Ranges(Parse(served[n]).shape, Parse(served[n]).chunks))
        ELSE <<>>

\* the requests and writes for chunks of a dataset, in the order performed
ChunkEvents(dataset) ==
    SelectSeq(log, LAMBDA e : IsChunkFileOf(e.name, dataset))

\* C11: chunk transfers are strictly sequential and ordered.  A response is held
\* only between a successful GET and the write of that same chunk (at most one
\* fetch/store pair in flight); for every dataset the chunk events are GET c1,
\* write c1, GET c2, write c2, ... over the enumeration order, so each write
\* directly follows its own GET and the GET of coordinate n+1 follows the write
\* of coordinate n; a dataset is complete before the next one is touched.
C11_Sequential ==
    /\ (response # <<>>) <=> (pc = "store")
    /\ pc = "store" =>
          /\ ~dry_run
          /\ todo # <<>>
          /\ response = ChunkContent(datasets[di], Head(todo))
          /\ log[Len(log)] = [op |-> "get",
                              name |-> LocalPrefix(datasets[di]) \o ChunkName(Head(todo))]
    /\ \A j \in 1..Len(datasets) :
          LET E == ChunkEvents(datasets[j])
              enum == EnumOf(j)
              nameOf(c) == LocalPrefix(datasets[j]) \o ChunkName(c)
              per == IF dry_run THEN 1 ELSE 2
          IN  /\ Len(E) <= per * Len(enum)
              /\ \A m \in 1..Len(E) :
                    E[m] = IF dry_run
                           THEN [op |-> "head", name |-> nameOf(enum[m])]
                           ELSE [op |-> IF m % 2 = 1 THEN "get" ELSE "write",
                                 name |-> nameOf(enum[(m + 1) \div 2])]
              /\ j < di => Len(E) = per * Len(enum)
              /\ j > di => E = <<>>
              /\ (j = di /\ pc = "chunk_loop") => Len(E) = per * Len(visited)
              /\ (j = di /\ pc = "store") => Len(E) = 2 * Len(visited) + 1
    /\ \A a, b \in 1..Len(log) : \A j, k \in 1..Len(datasets) :
          (a < b /\ IsChunkFileOf(log[a].name, datasets[j])
                 /\ IsChunkFileOf(log[b].name, datasets[k])) => j <= k

\* a fetched chunk awaits its write after earlier chunks of the second dataset
\* were stored
C11_Witness ==
    /\ pc = "store"
    /\ ~dry_run
    /\ di = 2
    /\ Len(visited) >= 2
    /\ Len(todo) >= 2

\* the top-level metadata files this run has written
TopLevelWritten == {<<".zgroup">>, <<".zattrs">>} \cap DOMAIN files

\* C13: in a transfer run local metadata is written only after the data it
\* describes.  A dataset's .zarray exists only once every chunk of that dataset
\* is stored, and its write comes after all of that dataset's chunk writes; the
\* top-level .zgroup and .zattrs exist only once every dataset of the series has
\* its chunks and its .zarray, as the last two writes of a finished run; a run
\* that aborted has written neither.
C13_MetadataAfterData ==
    ~dry_run =>
        /\ \A j \in 1..Len(datasets) :
              LET n == LocalPrefix(datasets[j]) \o <<".zarray">>
                  enum == EnumOf(j)
                  nameOf(c) == LocalPrefix(datasets[j]) \o ChunkName(c)
              IN  n \in DOMAIN files =>
                      /\ j < di
                      /\ \A i \in 1..Len(enum) :
                            /\ nameOf(enum[i]) \in DOMAIN files
                            /\ files[nameOf(enum[i])] = ChunkContent(datasets[j], enum[i])
                      /\ Len(ChunkWrites(datasets[j])) = Len(enum)
                      /\ \A a, b \in 1..Len(log) :
                            (log[a] = [op |-> "write", name |-> n]
                               /\ IsChunkFileOf(log[b].name, datasets[j])) => b < a
        /\ TopLevelWritten # {} =>
              /\ pc = "done"
              /\ TopLevelWritten = {<<".zgroup">>, <<".zattrs">>}
              /\ \A j \in 1..Len(datasets) :
                    LocalPrefix(datasets[j]) \o <<".zarray">> \in DOMAIN files
              /\ SubSeq(log, Len(log) - 1, Len(log)) =
                    <<[op |-> "write", name |-> <<".zgroup">>],
                      [op |-> "write", name |-> <<".zattrs">>]>>
        /\ pc = "exit" => TopLevelWritten = {}

\* a transfer that wrote the first dataset's .zarray after its chunks, stored a
\* chunk of the second dataset and then aborted on a failed GET
C13_Witness ==
    /\ pc = "exit"
    /\ ~dry_run
    /\ reported.msg = "failed to fetch chunk"
    /\ di = 2
    /\ Len(EnumOf(1)) >= 2
    /\ <<"0", "/", ".zarray">> \in DOMAIN files
    /\ Len(visited) >= 1

------------------------------------------------------------------------------
(* Properties of the resumable download of idr-image2zarr.py *)

\* the coordinates for which an operation was logged, in order
LoggedZcts(op) ==
    LET sel == SelectSeq(idrLog, LAMBDA e : e.op = op)
    IN  [i \in 1..Len(sel) |-> sel[i].zct]

AllZcts ==
    {<<z, c, t>> : z \in 0..(shape[3] - 1), c \in 0..(shape[4] - 1),
                   t \in 0..(shape[5] - 1)}

C4_State ==
    LET gets == LoggedZcts("getPlane")
        saves == LoggedZcts("save")
    IN  /\ \A m, n \in 1..Len(gets) : m < n => LexLess(gets[m], gets[n])
        /\ pc \in {"plane_loop", "downloaded"} => saves = gets
        /\ pc = "save" => gets = Append(saves, plane.zct)
        /\ \A i \in 1..Len(saves) : PlaneFile(saves[i]) \in planeFiles
        /\ pc = "downloaded" =>
              /\ \A zct \in AllZcts : PlaneFile(zct) \in planeFiles
              /\ LoggedZcts("exists") = Zcts(shape)

C4_Step ==
    (pc = "plane_loop" /\ zcts # <<>>) =>
        IF PlaneFile(Head(zcts)) \in planeFiles
        THEN /\ idrLog' = Append(idrLog, [op |-> "exists", zct |-> Head(zcts)])
             /\ planeFiles' = planeFiles
             /\ pc' = "plane_loop"
             /\ zcts' = Tail(zcts)
        ELSE /\ idrLog' = idrLog \o <<[op |-> "exists", zct |-> Head(zcts)],
                                      [op |-> "getPlane", zct |-> Head(zcts)]>>
             /\ planeFiles' = planeFiles
             /\ pc' = "save" => plane' = [zct |-> Head(zcts)] /\ zcts' = zcts

\* C4: in the download phase a coordinate whose plane file exists when the loop
\* reaches it gets a presence check only, no getPlane and no save; a coordinate
\* whose file is missing is requested and then saved; requests and saves happen
\* in enumeration order; when the phase completes every (z,c,t) has its file.
C4_Resume == [](C4_State) /\ [][C4_Step]_vars

C4_Witness ==
    /\ pc = "downloaded"
    /\ shape = <<1, 1, 2, 2, 2>>
    /\ LoggedZcts("exists") = Zcts(shape)
    /\ LoggedZcts("save") = SubSeq(Zcts(shape), 3, 8)

------------------------------------------------------------------------------
(* Properties of scale.py *)

\* the methods whose loop is written in scale.py itself
OwnMethods == {"nearest", "local_mean", "zoom"}

\* C5, for the methods scale.py implements itself: element 0 of the list
\* method(base) returns is the base array, and element k >= 1 is the reduction
\* of element k-1 (nearest, local_mean) or the reduction of the base by
\* downscale^k (zoom).
C5_PyramidLevels ==
    (script = "scale.py" /\ Len(pyramid) > 0 /\ ns.method \in OwnMethods) =>
        /\ pyramid[1] = base
        /\ \A k \in 1..(Len(pyramid) - 1) :
              pyramid[k + 1] =
                  CASE ns.method = "nearest" -> Nearest(pyramid[k], ns.downscale)
                    [] ns.method = "local_mean" -> LocalMean(pyramid[k], ns.downscale)
                    [] ns.method = "zoom" -> ZoomBy(base, 1, Pow(ns.downscale, k))

\* the levels whose values, as read by the validation, are not all values of level 0
Offending == {i \in 1..Len(uniques) : ~(uniques[i] \subseteq expected)}

C7_ManifestMatchesStore ==
    (script = "scale.py" /\ pc = "done" /\ ns.method \in OwnMethods) =>
        LET multiscale == attrs["multiscales"][1]
            entries == multiscale.datasets
        IN  /\ Len(entries) = Len(pyramid)
            /\ Len(entries) = ns.max_layer + 1
            /\ multiscale.type = ns.method
            /\ \A i \in 1..Len(entries) :
                  /\ entries[i].path = PathOf(i - 1)
                  /\ entries[i].path \in DOMAIN store
                  /\ store[entries[i].path] = pyramid[i]

\* C8: with --in-place the base array is not written to the output group.
C8_InPlaceSkipsBase ==
    (script = "scale.py" /\ ns.in_place) => "base" \notin DOMAIN store

------------------------------------------------------------------------------
(* Properties of the scripts that need a fresh destination *)

DestinationExists ==
    \/ script = "scale.py" /\ outputExists
    \/ script = "omero_to_zarr.py" /\ nameExists

NothingReadOrWritten ==
    /\ inputReads = <<>>
    /\ planeReads = <<>>
    /\ DOMAIN store = {}
    /\ DOMAIN attrs = {}
    /\ DOMAIN written = {}

\* C9 as stated: when the destination exists the run aborts with an error, with
\* no source data read and nothing written.
C9_AbortsWithError ==
    DestinationExists =>
        /\ NothingReadOrWritten
        /\ pc \notin {"check_output", "check_name"} =>
              /\ pc = "exit"
              /\ exitStatus > 0

\* C9 amended: when the destination exists the run stops at the existence check,
\* with no source data read and nothing written; scale.py stops with an
\* AssertionError, image_to_xarray prints "already exists!" and returns
\* normally.
C9_StopsAtExistenceCheck ==
    DestinationExists =>
        /\ NothingReadOrWritten
        /\ pc \notin {"check_output", "check_name"} =>
              /\ ~ENABLED NextFresh
              /\ IF script = "scale.py"
                 THEN /\ pc = "exit"
                      /\ exitStatus = 1
                      /\ reported.msg = "AssertionError"
                 ELSE /\ pc = "done"
                      /\ exitStatus = 0
                      /\ reported.msg = "already exists!"

C9_Witness ==
    /\ script = "omero_to_zarr.py"
    /\ nameExists
    /\ image.size_c = 2
    /\ pc = "done"
    /\ reported # <<>>

------------------------------------------------------------------------------
(* Properties of image_to_zarr *)

\* the cells [c, z, t] of an image
CellsOf(img) ==
    {<<c, z, t>> : c \in 0..(img.size_c - 1), z \in 0..(img.size_z - 1),
                   t \in 0..(img.size_t - 1)}

\* C12: image_to_zarr never mislabels a plane.  Every cell [c,z,t] assigned holds
\* the plane of (z,c,t), the plane awaiting assignment is the one of the loop's
\* current (z,c,t), no cell is assigned twice, the planes read are exactly the
\* first entries of the list and as many as were consumed, next(planes) never
\* finds the generator used up, and when the loop ends every cell is assigned and
\* planes requested = planes consumed = Z*C*T, the generator having none left.
C12_NoMislabel ==
    (pc # "image_to_zarr") =>
        LET n == zimage.size_z * zimage.size_c * zimage.size_t
            cells == IF za = <<>> THEN <<>> ELSE za.cells
        IN  /\ \A cell \in DOMAIN cells :
                  cells[cell] = PlaneAt(<<cell[2], cell[1], cell[3]>>)
            /\ zplane # <<>> => zplane = PlaneAt(<<zloop.z, zloop.c, zloop.t>>)
            /\ \A i, j \in 1..Len(assigned) : i # j => assigned[i] # assigned[j]
            /\ {assigned[i] : i \in 1..Len(assigned)} = DOMAIN cells
            /\ requested = SubSeq(zct_list, 1, yielded)
            /\ Len(assigned) = yielded - (IF zplane = <<>> THEN 0 ELSE 1)
            /\ \A i \in 1..Len(assigned) :
                  requested[i] = <<assigned[i][2], assigned[i][1], assigned[i][3]>>
            /\ pc # "exit"
            /\ (yielded = Len(zct_list) /\ pc = "loop") => zloop.z = zimage.size_z
            /\ pc = "done" =>
                  /\ DOMAIN cells = CellsOf(zimage)
                  /\ Len(assigned) = n
                  /\ Len(requested) = n
                  /\ yielded = n
                  /\ Len(zct_list) = n

\* the function returned for an image with more than one z, c and t
C12_Witness ==
    /\ pc = "done"
    /\ zimage = [size_c |-> 2, size_z |-> 3, size_t |-> 2]
    /\ Len(assigned) = 12
    /\ za.cells[<<1, 2, 0>>] = PlaneAt(<<2, 1, 0>>)

==============================================================================
